---- MODULE Spec2Model ----
(***************************************************************************)
(* vizhub-lite: the service worker that serves a virtual file set to the   *)
(* preview iframe, and the Runner component that registers it, publishes   *)
(* file sets to it and shows the iframe once a publish was acknowledged.   *)
(*                                                                         *)
(* Strings whose characters the code inspects (file names, URLs) are       *)
(* sequences of one-character strings, so that endsWith, the pathname of a *)
(* URL and replace(/^\//, "") are computed and not assumed.                *)
(***************************************************************************)
EXTENDS Naturals, Sequences, FiniteSets

\* ------------------------------------------------------------------ bounds
MaxRuns == 1          \* upstream file-set changes (runContent calls), handshake
MaxMounts == 2        \* Runner mounts
ServeRuns == 2        \* upstream file-set changes (runContent calls), serving
MaxInFlight == 2      \* messages posted by hand and not yet dispatched

\* ------------------------------------------------------- names and contents
IndexHtml == <<"i","n","d","e","x",".","h","t","m","l">>
IndexJs == <<"i","n","d","e","x",".","j","s">>
StyleCss == <<"s",".","c","s","s">>
DataCsv == <<"d",".","c","s","v">>
NotesXyz == <<"n",".","x","y","z">>
Readme == <<"R","E","A","D","M","E">>
MissingPng == <<"m",".","p","n","g">>

File(n, t) == [name |-> n, text |-> t]

\* A VizFiles object is modelled by the sequence of its values in the
\* enumeration order of Object.keys; the keys are the non-empty ids of
\* generateVizFileId and are not looked at by the code beyond that order.
EmptySet == <<>>
SetA == <<File(IndexHtml, "H1"), File(IndexJs, "J1")>>
SetB == <<File(StyleCss, "C1"), File(IndexHtml, "H2")>>
SetC == <<File(DataCsv, "D1"), File(DataCsv, "D2"),
          File(NotesXyz, "X1"), File(Readme, "R1")>>
SetD == <<File(Readme, "R2"), File(IndexJs, "J2"), File(IndexHtml, "")>>

\* The file sets the editor hands to the Runner: in the handshake one with
\* and one without index.html, in serving two that share a name.
HandshakeSets == {EmptySet, SetA}
ServeSets == {SetA, SetB}

\* The file sets the worker is given to resolve requests against.
StoredSets == {EmptySet, SetA, SetB, SetC, SetD}

\* An entry that is null instead of a file: reading its name throws.  It is
\* written as a record whose fields hold a marker no name or text equals.
Unreadable == <<"null">>
NullEntry == [name |-> Unreadable, text |-> Unreadable]

\* A payload posted by a page with a null entry between two files.
BadSet == <<File(IndexHtml, "H3"), NullEntry, File(IndexJs, "J3")>>

FailureSets == StoredSets \cup {BadSet}

Clients == {"c1", "c2"}

SelfOrigin == "self"
OtherOrigin == "other"

Slash(p) == <<"/">> \o p
Urls == {Slash(IndexHtml), Slash(IndexJs), Slash(IndexJs) \o <<"?","v">>,
         Slash(IndexJs) \o <<"#","x">>, Slash(StyleCss), Slash(DataCsv),
         Slash(NotesXyz), Slash(Readme), Slash(MissingPng), <<"/">>}
Requests ==
    [origin : {SelfOrigin}, url : Urls]
        \cup [origin : {OtherOrigin}, url : {Slash(IndexHtml), Slash(MissingPng)}]

\* The requests made while a Runner publishes.
ServeRequests ==
    {[origin |-> SelfOrigin, url |-> Slash(IndexHtml)],
     [origin |-> SelfOrigin, url |-> Slash(IndexJs)],
     [origin |-> OtherOrigin, url |-> Slash(IndexHtml)]}

\* ---------------------------------------------------------------- worker
EndsWith(s, suffix) ==
    /\ Len(s) >= Len(suffix)
    /\ SubSeq(s, Len(s) - Len(suffix) + 1, Len(s)) = suffix

\* guessContentType without the .csv row.
guessContentTypeNoCsv(fileName) ==
    IF EndsWith(fileName, <<".","h","t","m","l">>) THEN "text/html"
    ELSE IF EndsWith(fileName, <<".","j","s">>) THEN "text/javascript"
    ELSE IF EndsWith(fileName, <<".","c","s","s">>) THEN "text/css"
    ELSE "text/plain"

guessContentType(fileName) ==
    IF EndsWith(fileName, <<".","h","t","m","l">>) THEN "text/html"
    ELSE IF EndsWith(fileName, <<".","j","s">>) THEN "text/javascript"
    ELSE IF EndsWith(fileName, <<".","c","s","s">>) THEN "text/css"
    ELSE IF EndsWith(fileName, <<".","c","s","v">>) THEN "text/csv"
    ELSE "text/plain"

\* The whole URL, query and fragment included, taken as the path.
HrefAsPath(url) == url

\* new URL(url).pathname: the part of the URL before the query and fragment.
Pathname(url) ==
    LET cut == {i \in 1..Len(url) : url[i] \in {"?", "#"}}
    IN  IF cut = {} THEN url
        ELSE SubSeq(url, 1, (CHOOSE i \in cut : \A j \in cut : i <= j) - 1)

\* The root path read as a request for index.html.
StripOrIndex(p) ==
    IF p = <<"/">> THEN IndexHtml
    ELSE IF p # <<>> /\ p[1] = "/" THEN Tail(p) ELSE p

\* pathname.replace(/^\//, "")
StripLeadingSlash(p) == IF p # <<>> /\ p[1] = "/" THEN Tail(p) ELSE p

\* The last file of that name instead of the first.
FindFileLast(files, path) ==
    LET hits == {i \in 1..Len(files) : files[i].name = path}
    IN  IF hits = {} THEN 0 ELSE CHOOSE i \in hits : \A j \in hits : i >= j

\* find() replaced by a zero-based findIndex() whose result is still tested
\* for truthiness: the first entry is never found.
FindFileZeroBased(files, path) ==
    LET hits == {i \in 1..Len(files) : files[i].name = path}
    IN  IF hits = {} THEN 0 ELSE (CHOOSE i \in hits : \A j \in hits : i <= j) - 1

\* Object.keys(VIZ_FILES).find(fid => VIZ_FILES[fid].name === path):
\* the position of the first file with that name, 0 when there is none.
FindFile(files, path) ==
    LET hits == {i \in 1..Len(files) : files[i].name = path}
    IN  IF hits = {} THEN 0 ELSE CHOOSE i \in hits : \A j \in hits : i <= j

\* "Otherwise, go to the network": the handler gives no response of its own.
GoToNetwork == [answered |-> FALSE]

\* The origin test left out.
SameOriginAlways(req) == TRUE

SameOrigin(req) == req.origin = SelfOrigin

\* A fetch handler that answers a miss with a 404 of its own.
FetchResult404(files, req) ==
    IF SameOrigin(req)
    THEN LET path == StripLeadingSlash(Pathname(req.url))
             fileId == FindFile(files, path)
         IN  IF fileId # 0
             THEN [answered |-> TRUE, status |-> 200,
                   body |-> files[fileId].text,
                   contentType |-> guessContentType(files[fileId].name)]
             ELSE [answered |-> TRUE, status |-> 404, body |-> "",
                   contentType |-> "text/plain"]
    ELSE GoToNetwork

\* The fetch handler's result for one request against one stored set.
FetchResult(files, req) ==
    IF SameOrigin(req)
    THEN LET path == StripLeadingSlash(Pathname(req.url))
             fileId == FindFile(files, path)
         IN  IF fileId # 0
             THEN [answered |-> TRUE, status |-> 200,
                   body |-> files[fileId].text,
                   contentType |-> guessContentType(files[fileId].name)]
             ELSE GoToNetwork
    ELSE GoToNetwork

\* The callback of find() throws a TypeError: it reads VIZ_FILES[fid].name of
\* a null entry, which it reaches when no entry before it has the name.
Throws(files, req) ==
    /\ SameOrigin(req)
    /\ \E i \in 1..Len(files) :
          /\ files[i] = NullEntry
          /\ \A j \in 1..(i-1) :
                files[j].name # StripLeadingSlash(Pathname(req.url))

\* The listener threw: respondWith() was not called, and nothing in the
\* handler catches the error.
Uncaught == [answered |-> FALSE, thrown |-> TRUE]

\* The outcome of the fetch listener for one request.
FetchOutcome(files, req) ==
    IF Throws(files, req) THEN Uncaught ELSE FetchResult(files, req)

\* event.data.payload || {}
PayloadOrEmpty(msg) == IF "payload" \in DOMAIN msg THEN msg.payload ELSE EmptySet

\* A message that overtakes the ones posted before it.
PostMessageFirst(q, msg) == <<msg>> \o q

\* postMessage to the worker: message events are dispatched in the order
\* the messages were posted.
PostMessage(q, msg) == Append(q, msg)

SetVizFilesMsg(fs) == [type |-> "SET_VIZ_FILES", payload |-> fs]
ClaimClientsMsg == [type |-> "CLAIM_CLIENTS"]
AckMsg == [type |-> "VIZ_FILES_RECEIVED"]

VARIABLES
    swState,        \* worker lifecycle: "none", "activating", "active"
    VIZ_FILES,      \* the worker's stored file set
    swQueue,        \* messages posted to the worker, not yet handled
    ackPending,     \* clients.matchAll() promises not yet resolved
    controlled,     \* the clients the worker controls (what matchAll gives)
    reg,            \* per Runner: "unmounted", "pending", "done", "failed", "unsupported"
    swReady, filesReceived, iframeKey,   \* Runner state (useState)
    swRef,          \* Runner: swRef.current is non-null
    vizFiles,       \* Runner prop, App's vizFiles state
    listening,      \* Runner: messageHandler is registered
    effectPending,  \* Runner: deps of the publish effect changed, effect not run yet
    inbox,          \* per client: messages posted by the worker, not yet dispatched
    runs, mounts,   \* counters for the bounds
    published,      \* history, per Runner: <<>> or <<the payload it sent last>>
    applied,        \* history: <<>> or <<the payload the worker handled last>>
    repeat,         \* history: that payload equalled the one handled before it
    ackSince,       \* history, per Runner: a message event brought an acknowledgment
                    \* to the page since the Runner last published
    lastFetch,      \* history: the last intercepted request and its result
    handledBare,    \* history: the SET_VIZ_FILES handled last had no payload
    ignored,        \* history: the worker handled a message of a type it
                    \* does not know
    createdOn       \* history, per Runner: <<the set stored when the iframe
                    \* element now rendered was created>>, <<>> when none is

workerVars == <<swState, VIZ_FILES, swQueue, ackPending, controlled>>
runnerVars == <<reg, swReady, filesReceived, iframeKey, swRef, vizFiles,
                listening, effectPending>>
histVars == <<published, applied, repeat, ackSince, lastFetch, handledBare, ignored,
             createdOn>>
vars == <<workerVars, runnerVars, inbox, runs, mounts, histVars>>

NoFetch == [kind |-> "none"]

\* The set the worker handled last; the initial `let VIZ_FILES = {}` before any.
LastApplied(h) == IF h = <<>> THEN EmptySet ELSE h[1]

Init ==
    /\ swState = "none"
    /\ VIZ_FILES = EmptySet
    /\ swQueue = <<>>
    /\ ackPending = 0
    /\ controlled = {}
    /\ reg = [c \in Clients |-> "unmounted"]
    /\ swReady = [c \in Clients |-> FALSE]
    /\ filesReceived = [c \in Clients |-> FALSE]
    /\ iframeKey = [c \in Clients |-> 0]
    /\ swRef = [c \in Clients |-> FALSE]
    /\ vizFiles = [c \in Clients |-> EmptySet]
    /\ listening = [c \in Clients |-> FALSE]
    /\ effectPending = [c \in Clients |-> FALSE]
    /\ inbox = [c \in Clients |-> <<>>]
    /\ runs = 0
    /\ mounts = 0
    /\ published = [c \in Clients |-> <<>>]
    /\ applied = <<>>
    /\ repeat = FALSE
    /\ ackSince = [c \in Clients |-> FALSE]
    /\ lastFetch = NoFetch
    /\ handledBare = FALSE
    /\ ignored = FALSE
    /\ createdOn = [c \in Clients |-> <<>>]

\* ----------------------------------------------------------------- Runner
hasIndexHtml(files) == \E i \in 1..Len(files) : files[i].name = IndexHtml

HasIframeSrc(c) == hasIndexHtml(vizFiles[c])

\* `undefined`, as the src of an iframe that has no entry document.
Undefined == <<>>

\* iframeSrc: "/index.html" when there is an index.html, else undefined.
iframeSrc(c) == IF hasIndexHtml(vizFiles[c]) THEN Slash(IndexHtml) ELSE Undefined

\* The render condition without the test of iframeSrc.
shouldRenderWithoutSrc(c) == swReady[c] /\ filesReceived[c]

shouldRenderIframe(c) == swReady[c] /\ HasIframeSrc(c) /\ filesReceived[c]

Mounted(c) == reg[c] # "unmounted"

\* The iframe element after a render: none when the iframe is not rendered,
\* the same element when it was rendered before under the same key, and
\* otherwise a new element, created while the worker stores VIZ_FILES.
CreatedOnAfter(c) ==
    IF ~shouldRenderIframe(c)' THEN <<>>
    ELSE IF shouldRenderIframe(c) /\ iframeKey'[c] = iframeKey[c]
         THEN createdOn[c]
         ELSE <<VIZ_FILES>>

\* A Runner whose state outlives the instance: a new one starts ready and
\* acknowledged, as the one before it may have been.
MountAcknowledged(c, supported) ==
    /\ reg[c] = "unmounted"
    /\ mounts < MaxMounts
    /\ mounts' = mounts + 1
    /\ reg' = [reg EXCEPT ![c] = IF supported THEN "pending" ELSE "unsupported"]
    /\ swReady' = [swReady EXCEPT ![c] = TRUE]
    /\ filesReceived' = [filesReceived EXCEPT ![c] = TRUE]
    /\ iframeKey' = [iframeKey EXCEPT ![c] = 0]
    /\ swRef' = [swRef EXCEPT ![c] = FALSE]
    /\ vizFiles' = [vizFiles EXCEPT ![c] = EmptySet]
    /\ listening' = [listening EXCEPT ![c] = FALSE]
    /\ effectPending' = [effectPending EXCEPT ![c] = FALSE]
    /\ published' = [published EXCEPT ![c] = <<>>]
    /\ ackSince' = [ackSince EXCEPT ![c] = FALSE]
    /\ createdOn' = [createdOn EXCEPT ![c] = <<>>]
    /\ UNCHANGED <<workerVars, inbox, runs, applied, repeat, lastFetch,
                   handledBare,
                   ignored>>

\* The Runner is mounted: useState/useRef initial values, and the
\* registration effect either calls register() or finds no support.
Mount(c, supported) ==
    /\ reg[c] = "unmounted"
    /\ mounts < MaxMounts
    /\ mounts' = mounts + 1
    /\ reg' = [reg EXCEPT ![c] = IF supported THEN "pending" ELSE "unsupported"]
    /\ swReady' = [swReady EXCEPT ![c] = FALSE]
    /\ filesReceived' = [filesReceived EXCEPT ![c] = FALSE]
    /\ iframeKey' = [iframeKey EXCEPT ![c] = 0]
    /\ swRef' = [swRef EXCEPT ![c] = FALSE]
    /\ vizFiles' = [vizFiles EXCEPT ![c] = EmptySet]
    /\ listening' = [listening EXCEPT ![c] = FALSE]
    /\ effectPending' = [effectPending EXCEPT ![c] = FALSE]
    /\ published' = [published EXCEPT ![c] = <<>>]
    /\ ackSince' = [ackSince EXCEPT ![c] = FALSE]
    /\ createdOn' = [createdOn EXCEPT ![c] = <<>>]
    /\ UNCHANGED <<workerVars, inbox, runs, applied, repeat, lastFetch,
                   handledBare,
                   ignored>>

\* The Runner is unmounted: its state is dropped and the cleanup of the
\* listener effect removes messageHandler.  The page and the worker stay,
\* and so do the messages already posted to either.  A register() promise
\* still pending is dropped with the instance (its setSwReady would be a
\* no-op on the unmounted component).
Unmount(c) ==
    /\ Mounted(c)
    /\ reg' = [reg EXCEPT ![c] = "unmounted"]
    /\ swReady' = [swReady EXCEPT ![c] = FALSE]
    /\ filesReceived' = [filesReceived EXCEPT ![c] = FALSE]
    /\ iframeKey' = [iframeKey EXCEPT ![c] = 0]
    /\ swRef' = [swRef EXCEPT ![c] = FALSE]
    /\ vizFiles' = [vizFiles EXCEPT ![c] = EmptySet]
    /\ listening' = [listening EXCEPT ![c] = FALSE]
    /\ effectPending' = [effectPending EXCEPT ![c] = FALSE]
    /\ createdOn' = [createdOn EXCEPT ![c] = <<>>]
    /\ UNCHANGED <<workerVars, inbox, runs, mounts, published, applied,
                   repeat, ackSince, lastFetch, handledBare,
                   ignored>>

\* A catch handler that goes on as if the registration had succeeded.
RegisterRejectReady(c) ==
    /\ reg[c] = "pending"
    /\ reg' = [reg EXCEPT ![c] = "failed"]
    /\ swReady' = [swReady EXCEPT ![c] = TRUE]
    /\ effectPending' = [effectPending EXCEPT ![c] = TRUE]
    /\ UNCHANGED <<workerVars, filesReceived, iframeKey, swRef, vizFiles,
                   listening, inbox, runs, mounts, histVars>>

\* register() is rejected: .catch(console.error), nothing else happens.
RegisterReject(c) ==
    /\ reg[c] = "pending"
    /\ reg' = [reg EXCEPT ![c] = "failed"]
    /\ UNCHANGED <<workerVars, swReady, filesReceived, iframeKey, swRef,
                   vizFiles, listening, effectPending, inbox, runs, mounts,
                   histVars>>

\* A continuation that keeps a reference only from
\* navigator.serviceWorker.controller and calls setSwReady(true) whether or
\* not it has one.
ReadyResolveControllerOnly(c) ==
    /\ reg[c] = "pending"
    /\ swState \in {"activating", "active"}
    /\ reg' = [reg EXCEPT ![c] = "done"]
    /\ swRef' = [swRef EXCEPT ![c] = c \in controlled]
    /\ swReady' = [swReady EXCEPT ![c] = TRUE]
    /\ effectPending' = [effectPending EXCEPT ![c] = TRUE]
    /\ UNCHANGED <<swState, VIZ_FILES, swQueue, ackPending, controlled,
                   filesReceived, iframeKey, vizFiles, listening, inbox, runs,
                   mounts, histVars>>

\* The continuation after `await navigator.serviceWorker.ready`, which
\* resolves once the registration has an active worker.
ReadyResolve(c) ==
    /\ reg[c] = "pending"
    /\ swState \in {"activating", "active"}
    /\ reg' = [reg EXCEPT ![c] = "done"]
    /\ LET hasController == c \in controlled
           hasActive == swState \in {"activating", "active"}
           ref == hasController \/ hasActive
       IN  /\ swRef' = [swRef EXCEPT ![c] = ref]
           /\ swQueue' = IF ~hasController /\ hasActive
                         THEN PostMessage(swQueue, ClaimClientsMsg)
                         ELSE swQueue
           /\ swReady' = [swReady EXCEPT ![c] = ref]
           /\ effectPending' = [effectPending EXCEPT ![c] = ref]
    /\ UNCHANGED <<swState, VIZ_FILES, ackPending, controlled, filesReceived,
                   iframeKey, vizFiles, listening, inbox, runs, mounts,
                   histVars>>

\* App: setVizFiles(fs), from runContent / onCodeChange.  The object is a
\* new one on every call, so the deps of the publish effect change.
RunContent(c, fs, limit) ==
    /\ Mounted(c)
    /\ runs < limit
    /\ runs' = runs + 1
    /\ vizFiles' = [vizFiles EXCEPT ![c] = fs]
    /\ effectPending' = [effectPending EXCEPT ![c] = TRUE]
    /\ UNCHANGED <<workerVars, reg, swReady, filesReceived, iframeKey, swRef,
                   listening, inbox, mounts, published, applied, repeat,
                   ackSince, lastFetch, handledBare,
                   ignored>>
    /\ createdOn' = [createdOn EXCEPT ![c] = CreatedOnAfter(c)]

\* A publish effect that posts the set the Runner was mounted with.
PublishInitial(c) == EmptySet

\* What the publish effect posts to the worker.
PublishPayload(c) == vizFiles[c]

\* The publish effect without setFilesReceived(false).
KeepFilesReceived(c) == filesReceived[c]

\* filesReceived after the publish effect sent the files.
ResetFilesReceived(c) == FALSE

\* A publish effect that leaves the key as it is.
KeepKey(k) == k

\* setIframeKey((prev) => prev + 1)
BumpKey(k) == k + 1

\* The publish effect posting whether or not the Runner is ready and holds
\* a worker reference.
PublishesUnready(c) == TRUE

\* The publish effect posts SET_VIZ_FILES: it has not returned early
\* (`if (!swReady) return`) and swRef.current is set.
Publishes(c) == swReady[c] /\ swRef[c]

\* The effects of one commit whose deps changed: the listener effect
\* ([swReady]) and then the publish effect ([vizFiles, swReady]).
RunEffects(c) ==
    /\ Mounted(c)
    /\ effectPending[c]
    /\ effectPending' = [effectPending EXCEPT ![c] = FALSE]
    /\ listening' = [listening EXCEPT ![c] = swReady[c]]
    /\ IF Publishes(c)
       THEN /\ filesReceived' =
                  [filesReceived EXCEPT ![c] = ResetFilesReceived(c)]
            /\ swQueue' = PostMessage(swQueue,
                                    SetVizFilesMsg(PublishPayload(c)))
            /\ published' = [published EXCEPT ![c] = <<PublishPayload(c)>>]
            /\ ackSince' = [ackSince EXCEPT ![c] = FALSE]
       ELSE UNCHANGED <<filesReceived, swQueue, published, ackSince>>
    /\ iframeKey' = IF swReady[c]
                    THEN [iframeKey EXCEPT ![c] = BumpKey(@)]
                    ELSE iframeKey
    /\ UNCHANGED <<swState, VIZ_FILES, ackPending, controlled, reg, swReady,
                   swRef, vizFiles, inbox, runs, mounts, applied, repeat,
                   lastFetch, handledBare,
                   ignored>>
    /\ createdOn' = [createdOn EXCEPT ![c] = CreatedOnAfter(c)]

\* A listener that takes an acknowledgment only while the worker stores
\* the set its own Runner published last.
HandledOwnAck(c, msg) ==
    /\ listening[c]
    /\ msg.type = "VIZ_FILES_RECEIVED"
    /\ published[c] = <<VIZ_FILES>>

\* A message event in the page: messageHandler, when it is registered.
HandledAck(c, msg) == listening[c] /\ msg.type = "VIZ_FILES_RECEIVED"

Deliver(c) ==
    /\ inbox[c] # <<>>
    /\ inbox' = [inbox EXCEPT ![c] = Tail(@)]
    /\ filesReceived' = IF HandledAck(c, Head(inbox[c]))
                        THEN [filesReceived EXCEPT ![c] = TRUE]
                        ELSE filesReceived
    /\ ackSince' = IF Mounted(c) /\ Head(inbox[c]) = AckMsg
                   THEN [ackSince EXCEPT ![c] = TRUE]
                   ELSE ackSince
    /\ UNCHANGED <<workerVars, reg, swReady, iframeKey, swRef, vizFiles,
                   listening, effectPending, runs, mounts, published, applied,
                   repeat, lastFetch, handledBare,
                   ignored>>
    /\ createdOn' = [createdOn EXCEPT ![c] = CreatedOnAfter(c)]

\* ---------------------------------------------------------- worker events
\* install: skipWaiting(), so the worker goes on to activate at once.
Install ==
    /\ swState = "none"
    /\ \E c \in Clients : reg[c] = "pending"
    /\ swState' = "activating"
    /\ UNCHANGED <<VIZ_FILES, swQueue, ackPending, controlled, runnerVars,
                   inbox, runs, mounts, histVars>>

\* A claim() that takes control of no page.
ClaimNoClients == {}

\* self.clients.claim(): every page in scope becomes controlled.  The two
\* pages are open throughout, whether or not their Runner is mounted.
ClaimedClients == Clients

\* activate: clients.claim().
Activate ==
    /\ swState = "activating"
    /\ swState' = "active"
    /\ controlled' = ClaimedClients
    /\ UNCHANGED <<VIZ_FILES, swQueue, ackPending, runnerVars, inbox, runs,
                   mounts, histVars>>

\* The payload added after the entries already stored.
ReplaceOldFirst(old, msg) == old \o PayloadOrEmpty(msg)

\* The payload's entries put in front of the ones already stored.
ReplaceAssign(old, msg) == PayloadOrEmpty(msg) \o old

\* A message without payload read as "keep what is stored".
ReplaceUnlessBare(old, msg) ==
    IF "payload" \in DOMAIN msg THEN msg.payload ELSE old

\* The stored set after SET_VIZ_FILES.
ReplaceFiles(old, msg) == PayloadOrEmpty(msg)

\* Two matchAll() broadcasts started for one SET_VIZ_FILES.
AckTwice(n) == n + 2

\* The matchAll() promises outstanding after one more SET_VIZ_FILES.
AckStarted(n) == n + 1

\* message: SET_VIZ_FILES
HandleSetVizFiles ==
    /\ swState = "active"
    /\ swQueue # <<>>
    /\ Head(swQueue).type = "SET_VIZ_FILES"
    /\ swQueue' = Tail(swQueue)
    /\ VIZ_FILES' = ReplaceFiles(VIZ_FILES, Head(swQueue))
    /\ ackPending' = AckStarted(ackPending)
    /\ applied' = <<PayloadOrEmpty(Head(swQueue))>>
    /\ repeat' = (applied = <<PayloadOrEmpty(Head(swQueue))>>)
    /\ handledBare' = ("payload" \notin DOMAIN Head(swQueue))
    /\ UNCHANGED <<swState, controlled, runnerVars, inbox, runs, mounts,
                   published, ackSince, lastFetch, ignored, createdOn>>

\* message: CLAIM_CLIENTS
HandleClaimClients ==
    /\ swState = "active"
    /\ swQueue # <<>>
    /\ Head(swQueue).type = "CLAIM_CLIENTS"
    /\ swQueue' = Tail(swQueue)
    /\ controlled' = ClaimedClients
    /\ UNCHANGED <<swState, VIZ_FILES, ackPending, runnerVars, inbox, runs,
                   mounts, histVars>>

\* A message of any type taken for SET_VIZ_FILES without payload.
HandleUnknownAsReset ==
    /\ swState = "active"
    /\ swQueue # <<>>
    /\ Head(swQueue).type \notin {"SET_VIZ_FILES", "CLAIM_CLIENTS"}
    /\ swQueue' = Tail(swQueue)
    /\ VIZ_FILES' = EmptySet
    /\ ignored' = TRUE
    /\ UNCHANGED <<swState, ackPending, controlled, runnerVars, inbox, runs,
                   mounts, published, applied, repeat, ackSince, lastFetch,
                   handledBare, createdOn>>

\* message: any other type; neither branch of the handler is taken.
HandleUnknown ==
    /\ swState = "active"
    /\ swQueue # <<>>
    /\ Head(swQueue).type \notin {"SET_VIZ_FILES", "CLAIM_CLIENTS"}
    /\ swQueue' = Tail(swQueue)
    /\ ignored' = TRUE
    /\ UNCHANGED <<swState, VIZ_FILES, ackPending, controlled, runnerVars,
                   inbox, runs, mounts, published, applied, repeat, ackSince,
                   lastFetch, handledBare, createdOn>>

\* The acknowledgment posted to one client only.
AckOneClient == IF controlled = {} THEN {} ELSE {CHOOSE c \in controlled : TRUE}

\* The clients a resolved matchAll() posts the acknowledgment to.
AckTargets == controlled

\* clients.matchAll().then(clients => clients.forEach(postMessage))
AckBroadcast ==
    /\ ackPending > 0
    /\ ackPending' = ackPending - 1
    /\ inbox' = [c \in Clients |->
                    IF c \in AckTargets THEN Append(inbox[c], AckMsg)
                    ELSE inbox[c]]
    /\ UNCHANGED <<swState, VIZ_FILES, swQueue, controlled, runnerVars, runs,
                   mounts, histVars>>

\* A fetch listener that keeps the outcome of its first request and gives
\* it to every request after.
FetchFromLast(req) ==
    /\ swState = "active"
    /\ lastFetch' = [kind |-> "fetch", req |-> req,
                     result |-> IF lastFetch.kind = "fetch"
                                THEN lastFetch.result
                                ELSE FetchOutcome(VIZ_FILES, req),
                     store |-> VIZ_FILES,
                     basis |-> applied,
                     afterRepeat |-> repeat,
                     inFlight |-> FALSE,
                     afterMiss |-> FALSE,
                     keys |-> {},
                     sent |-> published,
                     again |-> /\ lastFetch.kind = "fetch"
                               /\ lastFetch.req = req
                               /\ lastFetch.store = VIZ_FILES,
                     agree |-> lastFetch.kind = "fetch"]
    /\ UNCHANGED <<workerVars, runnerVars, inbox, runs, mounts, published,
                   applied, repeat, ackSince, handledBare, ignored,
                   createdOn>>

\* fetch: one intercepted request, handled to completion.
Fetch(req) ==
    /\ swState = "active"
    /\ lastFetch' = [kind |-> "fetch", req |-> req,
                     result |-> FetchOutcome(VIZ_FILES, req),
                     store |-> VIZ_FILES,
                     basis |-> applied,
                     afterRepeat |-> repeat,
                     inFlight |-> \E i \in 1..Len(swQueue) :
                                     swQueue[i].type = "SET_VIZ_FILES",
                     afterMiss |-> /\ lastFetch.kind = "fetch"
                                   /\ ~lastFetch.result.answered,
                     keys |-> {iframeKey[c] :
                                  c \in {d \in Clients : shouldRenderIframe(d)}},
                     sent |-> published,
                     again |-> /\ lastFetch.kind = "fetch"
                               /\ lastFetch.req = req
                               /\ lastFetch.store = VIZ_FILES,
                     agree |-> /\ lastFetch.kind = "fetch"
                               /\ lastFetch.result =
                                     FetchOutcome(VIZ_FILES, req)]
    /\ UNCHANGED <<workerVars, runnerVars, inbox, runs, mounts, published,
                   applied, repeat, ackSince, handledBare, ignored,
                   createdOn>>

\* ------------------------------------------- Runner without acknowledgment
\* The earlier Runner: it keeps swReady only, posts through
\* navigator.serviceWorker.controller and listens to nothing.

\* The iframe is rendered whenever iframeSrc is defined.
LegacyRendersIframe(c) == Mounted(c) /\ HasIframeSrc(c)

\* The iframe element after a render: it has no key and its src never
\* changes, so once created it stays while iframeSrc is defined.
LegacyCreatedOnAfter(c) ==
    IF ~LegacyRendersIframe(c)' THEN <<>>
    ELSE IF LegacyRendersIframe(c) THEN createdOn[c]
         ELSE <<VIZ_FILES>>

\* Mounted: swReady false, and the registration effect either calls
\* register() or finds no support and does nothing.
LegacyMount(c, supported) ==
    /\ reg[c] = "unmounted"
    /\ mounts < 1
    /\ mounts' = mounts + 1
    /\ reg' = [reg EXCEPT ![c] = IF supported THEN "pending" ELSE "unsupported"]
    /\ swReady' = [swReady EXCEPT ![c] = FALSE]
    /\ vizFiles' = [vizFiles EXCEPT ![c] = EmptySet]
    /\ effectPending' = [effectPending EXCEPT ![c] = FALSE]
    /\ UNCHANGED <<workerVars, filesReceived, iframeKey, swRef, listening,
                   inbox, runs, histVars>>

\* register() or navigator.serviceWorker.ready rejected: console.error.
LegacyRegisterReject(c) ==
    /\ reg[c] = "pending"
    /\ reg' = [reg EXCEPT ![c] = "failed"]
    /\ UNCHANGED <<workerVars, swReady, filesReceived, iframeKey, swRef,
                   vizFiles, listening, effectPending, inbox, runs, mounts,
                   histVars>>

\* navigator.serviceWorker.ready resolved: setSwReady(true).
LegacyReadyResolve(c) ==
    /\ reg[c] = "pending"
    /\ swState \in {"activating", "active"}
    /\ reg' = [reg EXCEPT ![c] = "done"]
    /\ swReady' = [swReady EXCEPT ![c] = TRUE]
    /\ effectPending' = [effectPending EXCEPT ![c] = TRUE]
    /\ UNCHANGED <<workerVars, filesReceived, iframeKey, swRef, vizFiles,
                   listening, inbox, runs, mounts, histVars>>

\* App: setVizFiles(fs), and the render of the Runner that follows.
LegacyRunContent(c, fs, limit) ==
    /\ Mounted(c)
    /\ runs < limit
    /\ runs' = runs + 1
    /\ vizFiles' = [vizFiles EXCEPT ![c] = fs]
    /\ effectPending' = [effectPending EXCEPT ![c] = TRUE]
    /\ UNCHANGED <<workerVars, reg, swReady, filesReceived, iframeKey, swRef,
                   listening, inbox, mounts, published, applied, repeat,
                   ackSince, lastFetch, handledBare, ignored>>
    /\ createdOn' = [createdOn EXCEPT ![c] = LegacyCreatedOnAfter(c)]

\* The publish effect ([vizFiles, swReady]): posts when ready and the page
\* has a controller.
LegacyRunEffects(c) ==
    /\ Mounted(c)
    /\ effectPending[c]
    /\ effectPending' = [effectPending EXCEPT ![c] = FALSE]
    /\ IF swReady[c] /\ c \in controlled
       THEN /\ swQueue' = PostMessage(swQueue,
                                    SetVizFilesMsg(PublishPayload(c)))
            /\ published' = [published EXCEPT ![c] = <<PublishPayload(c)>>]
       ELSE UNCHANGED <<swQueue, published>>
    /\ UNCHANGED <<swState, VIZ_FILES, ackPending, controlled, reg, swReady,
                   filesReceived, iframeKey, swRef, vizFiles, listening,
                   inbox, runs, mounts, applied, repeat, ackSince, lastFetch,
                   handledBare, ignored, createdOn>>

\* A message event in a page that has no listener for it.
LegacyDeliver(c) ==
    /\ inbox[c] # <<>>
    /\ inbox' = [inbox EXCEPT ![c] = Tail(@)]
    /\ UNCHANGED <<workerVars, runnerVars, runs, mounts, histVars>>

\* The iframe loads its src, /index.html: through the fetch listener when
\* the scope has an active worker, and from the server otherwise.
LegacyLoad(c) ==
    /\ createdOn[c] # <<>>
    /\ LET req == [origin |-> SelfOrigin, url |-> Slash(IndexHtml)]
           intercepted == swState = "active"
       IN  lastFetch' = [kind |-> "load", req |-> req,
                         intercepted |-> intercepted,
                         result |-> IF intercepted
                                    THEN FetchOutcome(VIZ_FILES, req)
                                    ELSE GoToNetwork,
                         store |-> VIZ_FILES,
                         ready |-> swReady[c]]
    /\ UNCHANGED <<workerVars, runnerVars, inbox, runs, mounts, published,
                   applied, repeat, ackSince, handledBare, ignored,
                   createdOn>>

\* One step of the Runner in page c, with at most `limit` runContent calls.
RunnerStep(c, sets, limit) ==
    \/ \E supported \in BOOLEAN : Mount(c, supported)
    \/ Unmount(c)
    \/ RegisterReject(c)
    \/ ReadyResolve(c)
    \/ \E fs \in sets : RunContent(c, fs, limit)
    \/ RunEffects(c)
    \/ Deliver(c)

\* One step of the worker other than a fetch.
WorkerStep ==
    \/ Install
    \/ Activate
    \/ HandleSetVizFiles
    \/ HandleClaimClients
    \/ AckBroadcast

\* The handshake: the Runners of two pages and the worker.
Next ==
    \/ \E c \in Clients : RunnerStep(c, HandshakeSets, MaxRuns)
    \/ WorkerStep

Spec == Init /\ [][Next]_vars

\* Serving: the Runner of one page, mounted once, the worker, and
\* intercepted requests.
ServeNext ==
    \/ \E supported \in BOOLEAN : Mount("c1", supported)
    \/ RegisterReject("c1")
    \/ ReadyResolve("c1")
    \/ \E fs \in ServeSets : RunContent("c1", fs, ServeRuns)
    \/ RunEffects("c1")
    \/ Deliver("c1")
    \/ WorkerStep
    \/ \E req \in ServeRequests : Fetch(req)

ServeSpec == Init /\ [][ServeNext]_vars

\* Serving, with the Runner's own scheduling only: React runs the effects of
\* a commit, and the page dispatches the message events queued for it.
\* Nothing is assumed of the worker, which may stay silent for ever.
RunnerFairSpec ==
    /\ ServeSpec
    /\ WF_vars(RunEffects("c1"))
    /\ WF_vars(Deliver("c1"))

\* Serving, with everything that is scheduled eventually run: a fulfilled
\* register() reaches its continuation, React runs the effects of a commit,
\* the worker's lifecycle and message events are dispatched in the order
\* they were queued, matchAll() resolves, and so are the message events of
\* the page.
FairSpec ==
    /\ ServeSpec
    /\ WF_vars(ReadyResolve("c1"))
    /\ WF_vars(RunEffects("c1"))
    /\ WF_vars(Deliver("c1"))
    /\ WF_vars(Install)
    /\ WF_vars(Activate)
    /\ WF_vars(HandleSetVizFiles)
    /\ WF_vars(HandleClaimClients)
    /\ WF_vars(AckBroadcast)

\* The browser stops the worker while it has no event to handle and starts
\* it again for the next one: the script is evaluated anew, and its
\* top-level `let VIZ_FILES = {}` with it.  Registration, control of the
\* pages and the pages themselves are as before.
Restart ==
    /\ swState = "active"
    /\ swQueue = <<>>
    /\ ackPending = 0
    /\ VIZ_FILES # EmptySet
    /\ VIZ_FILES' = EmptySet
    /\ UNCHANGED <<swState, swQueue, ackPending, controlled, runnerVars,
                   inbox, runs, mounts, histVars>>

\* Serving, by a worker the browser may stop and start between events.
LifetimeNext ==
    \/ ServeNext
    \/ Restart

LifetimeSpec == Init /\ [][LifetimeNext]_vars

\* The earlier Runner in one page, mounted once, and the worker.  No page
\* posts CLAIM_CLIENTS.
LegacyNext ==
    \/ \E supported \in BOOLEAN : LegacyMount("c1", supported)
    \/ LegacyRegisterReject("c1")
    \/ LegacyReadyResolve("c1")
    \/ \E fs \in ServeSets : LegacyRunContent("c1", fs, ServeRuns)
    \/ LegacyRunEffects("c1")
    \/ LegacyDeliver("c1")
    \/ LegacyLoad("c1")
    \/ Install
    \/ Activate
    \/ HandleSetVizFiles
    \/ AckBroadcast

LegacySpec == Init /\ [][LegacyNext]_vars

\* A page in scope posts a SET_VIZ_FILES message to the active worker by
\* hand: with a payload, or without one.
PostedMessages ==
    {[type |-> "SET_VIZ_FILES"], SetVizFilesMsg(EmptySet), SetVizFilesMsg(SetA)}

\* Messages of other types a page in scope can post: CLAIM_CLIENTS, and two
\* types the handler has no branch for.
OtherMessages ==
    {ClaimClientsMsg, [type |-> "PING"], [type |-> "VIZ_FILES_RECEIVED"]}

InFlight == Len(swQueue) + ackPending + Len(inbox["c1"]) + Len(inbox["c2"])

PostSetVizFiles(msg) ==
    /\ swState = "active"
    /\ InFlight < MaxInFlight
    /\ swQueue' = PostMessage(swQueue, msg)
    /\ UNCHANGED <<swState, VIZ_FILES, ackPending, controlled, runnerVars,
                   inbox, runs, mounts, histVars>>

\* A page in scope posts a message of another type to the active worker.
PostOther(msg) ==
    /\ swState = "active"
    /\ InFlight < MaxInFlight
    /\ swQueue' = PostMessage(swQueue, msg)
    /\ UNCHANGED <<swState, VIZ_FILES, ackPending, controlled, runnerVars,
                   inbox, runs, mounts, histVars>>

\* Resolving: an active worker that holds some stored set, as a handled
\* SET_VIZ_FILES leaves it, and the requests it intercepts.
ActiveWorkerWith(sets) ==
    /\ swState = "active"
    /\ VIZ_FILES \in sets
    /\ applied = <<VIZ_FILES>>
    /\ controlled = ClaimedClients
    /\ swQueue = <<>>
    /\ ackPending = 0
    /\ reg = [c \in Clients |-> "unmounted"]
    /\ swReady = [c \in Clients |-> FALSE]
    /\ filesReceived = [c \in Clients |-> FALSE]
    /\ iframeKey = [c \in Clients |-> 0]
    /\ swRef = [c \in Clients |-> FALSE]
    /\ vizFiles = [c \in Clients |-> EmptySet]
    /\ listening = [c \in Clients |-> FALSE]
    /\ effectPending = [c \in Clients |-> FALSE]
    /\ inbox = [c \in Clients |-> <<>>]
    /\ runs = 0
    /\ mounts = 0
    /\ published = [c \in Clients |-> <<>>]
    /\ repeat = FALSE
    /\ ackSince = [c \in Clients |-> FALSE]
    /\ lastFetch = NoFetch
    /\ handledBare = FALSE
    /\ ignored = FALSE
    /\ createdOn = [c \in Clients |-> <<>>]

ResolveInit == ActiveWorkerWith(StoredSets)

ResolveNext == \E req \in Requests : Fetch(req)

ResolveSpec == ResolveInit /\ [][ResolveNext]_vars

\* Resolving against stored sets that may hold a null entry.
FailureInit == ActiveWorkerWith(FailureSets)

FailureSpec == FailureInit /\ [][ResolveNext]_vars

\* Messages: an active worker that holds some stored set, SET_VIZ_FILES
\* messages posted to it by hand, its broadcasts, the dispatch of the
\* acknowledgments in the pages, and intercepted requests.
MessageNext ==
    \/ \E msg \in PostedMessages : PostSetVizFiles(msg)
    \/ \E msg \in OtherMessages : PostOther(msg)
    \/ HandleSetVizFiles
    \/ HandleClaimClients
    \/ HandleUnknown
    \/ AckBroadcast
    \/ \E c \in Clients : Deliver(c)
    \/ \E req \in ServeRequests : Fetch(req)

MessageSpec == ResolveInit /\ [][MessageNext]_vars

\* ---------------------------------------------------------------- claims
NormalizedPath(req) == StripLeadingSlash(Pathname(req.url))

HasFile(S, n, t) == \E i \in 1..Len(S) : S[i].name = n /\ S[i].text = t
HasName(S, n) == \E i \in 1..Len(S) : S[i].name = n

Fetched == lastFetch.kind = "fetch"

\* A step in which the worker handled a SET_VIZ_FILES message.
HandledSetVizFiles ==
    /\ swQueue # <<>>
    /\ Head(swQueue).type = "SET_VIZ_FILES"
    /\ swQueue' = Tail(swQueue)

\* A step in which some page was posted a message.
SomeInboxGrew == \E c \in Clients : Len(inbox'[c]) > Len(inbox[c])

\* C1: every intercepted request is resolved entirely against one published
\* set, the payload the worker handled last before the request (the initial
\* empty set when there was none): an answer carries the text that this one
\* set has under the requested name, and a same-origin request is left
\* unanswered only when this set has no file of that name.
C1_Atomicity ==
    Fetched =>
        LET S == LastApplied(lastFetch.basis)
            path == NormalizedPath(lastFetch.req)
            r == lastFetch.result
        IN  IF r.answered
            THEN HasFile(S, path, r.body)
            ELSE SameOrigin(lastFetch.req) => ~HasName(S, path)

\* A request handled while a publish was in flight and answered with the
\* text of the set handled before; the set in flight, still queued, has the
\* same name under another text.
C1_Witness ==
    /\ Fetched
    /\ lastFetch.inFlight
    /\ lastFetch.result.answered
    /\ lastFetch.basis # <<>>
    /\ VIZ_FILES = lastFetch.store
    /\ swQueue # <<>>
    /\ Head(swQueue).type = "SET_VIZ_FILES"
    /\ HasName(Head(swQueue).payload, NormalizedPath(lastFetch.req))
    /\ ~HasFile(Head(swQueue).payload, NormalizedPath(lastFetch.req),
                lastFetch.result.body)

C3_ContentType ==
    (Fetched /\ lastFetch.result.answered) =>
        LET n == NormalizedPath(lastFetch.req)
            ct == lastFetch.result.contentType
            html == EndsWith(n, <<".","h","t","m","l">>)
            js == EndsWith(n, <<".","j","s">>)
            css == EndsWith(n, <<".","c","s","s">>)
            csv == EndsWith(n, <<".","c","s","v">>)
        IN  /\ html => ct = "text/html"
            /\ js => ct = "text/javascript"
            /\ css => ct = "text/css"
            /\ csv => ct = "text/csv"
            /\ ~(html \/ js \/ css \/ csv) => ct = "text/plain"

\* An answered request for a .csv file.
C3_Witness ==
    /\ Fetched
    /\ lastFetch.result.answered
    /\ NormalizedPath(lastFetch.req) = DataCsv
    /\ lastFetch.result.contentType = "text/csv"

\* A same-origin request that matched no stored name.
Missed(f) ==
    /\ f.kind = "fetch"
    /\ SameOrigin(f.req)
    /\ ~HasName(f.store, NormalizedPath(f.req))

C6_WholeSetReplacement ==
    applied # <<>> =>
        /\ VIZ_FILES = applied[1]
        /\ \A req \in Requests :
              LET r == FetchResult(VIZ_FILES, req)
              IN  r.answered => HasFile(applied[1], NormalizedPath(req), r.body)

\* index.js was served from SetA; SetB, which has no index.js, was handled
\* since, and index.js is no longer served.
C6_Witness ==
    /\ Fetched
    /\ lastFetch.req = [origin |-> SelfOrigin, url |-> Slash(IndexJs)]
    /\ lastFetch.store = SetA
    /\ lastFetch.result.answered
    /\ applied = <<SetB>>
    /\ VIZ_FILES = SetB
    /\ ~FetchResult(VIZ_FILES, lastFetch.req).answered

\* C7: handling a payload equal to the one handled just before leaves the
\* response to every request as it was; every handled SET_VIZ_FILES starts
\* exactly one broadcast, and a broadcast posts exactly one
\* VIZ_FILES_RECEIVED to every controlled client and nothing to the others.
C7_IdempotentRepublish ==
    [][ /\ ( /\ HandledSetVizFiles
             /\ applied # <<>>
             /\ PayloadOrEmpty(Head(swQueue)) = applied[1] )
           => \A req \in Requests :
                 FetchResult(VIZ_FILES', req) = FetchResult(VIZ_FILES, req)
        /\ HandledSetVizFiles => (ackPending' = ackPending + 1 /\ inbox' = inbox)
        /\ ackPending' # ackPending =>
              \/ HandledSetVizFiles
              \/ /\ ackPending' = ackPending - 1
                 /\ \A c \in Clients :
                       inbox'[c] = IF c \in controlled
                                   THEN Append(inbox[c], AckMsg)
                                   ELSE inbox[c]
        /\ SomeInboxGrew => ackPending' = ackPending - 1
      ]_vars

\* The same set handled twice in a row, both broadcasts done, two
\* acknowledgments in the inbox of the other page, and a request answered
\* after the second.
C7_Witness ==
    /\ applied = <<SetA>>
    /\ repeat
    /\ ackPending = 0
    /\ swQueue = <<>>
    /\ inbox["c2"] = <<AckMsg, AckMsg>>
    /\ Fetched
    /\ lastFetch.afterRepeat
    /\ lastFetch.basis = applied
    /\ lastFetch.result.answered

\* C8: an acknowledgment is posted only by a broadcast that a handled
\* SET_VIZ_FILES started, in the very step that stored its payload, so the
\* payload is stored before its acknowledgment is posted; and a broadcast
\* posts the acknowledgment to every controlled client.
C8_AckFollowsApplication ==
    [][ /\ ackPending' > ackPending =>
              /\ HandledSetVizFiles
              /\ VIZ_FILES' = PayloadOrEmpty(Head(swQueue))
              /\ inbox' = inbox
        /\ SomeInboxGrew =>
              /\ ackPending > 0
              /\ applied # <<>>
              /\ VIZ_FILES' = VIZ_FILES
              /\ \A c \in controlled : inbox'[c] = Append(inbox[c], AckMsg)
      ]_vars

\* The page c2, which has published nothing, holds an acknowledgment of a
\* publish of c1, and so does c1.
C8_Witness ==
    /\ Mounted("c2")
    /\ published["c2"] = <<>>
    /\ published["c1"] # <<>>
    /\ inbox["c2"] # <<>> /\ Head(inbox["c2"]) = AckMsg
    /\ inbox["c1"] # <<>> /\ Head(inbox["c1"]) = AckMsg

\* C9: from a publish of a Runner until a message event brings an
\* acknowledgment to its page, the Runner does not render the iframe.
C9_AckGating ==
    \A c \in Clients :
        (published[c] # <<>> /\ ~ackSince[c]) => ~shouldRenderIframe(c)

\* A ready Runner with index.html published and stored, the acknowledgment
\* posted but not yet dispatched, and the iframe not rendered.
C9_Witness ==
    \E c \in Clients :
        /\ swReady[c]
        /\ HasIframeSrc(c)
        /\ published[c] = <<vizFiles[c]>>
        /\ VIZ_FILES = vizFiles[c]
        /\ ~ackSince[c]
        /\ inbox[c] # <<>>
        /\ ~shouldRenderIframe(c)

\* C10: whenever a Runner renders the iframe, the stored set is the set that
\* Runner published last.
C10_NoStaleLoad ==
    \A c \in Clients :
        shouldRenderIframe(c) =>
            (published[c] # <<>> /\ VIZ_FILES = published[c][1])

\* A SET_VIZ_FILES message is waiting in the worker's queue.
SetVizFilesQueued ==
    \E i \in 1..Len(swQueue) : swQueue[i].type = "SET_VIZ_FILES"

\* C11: with one Runner, filesReceived is true only by the acknowledgment of
\* the set the Runner sent last: acknowledgments come in the order of the
\* publishes, so while filesReceived is true the latest SET_VIZ_FILES has been
\* handled and no acknowledgment is outstanding (none to be broadcast, none
\* waiting in the page).  An acknowledgment of a superseded publish would
\* leave one of the three behind.
C11_AckAttribution ==
    filesReceived["c1"] =>
        /\ ~SetVizFilesQueued
        /\ ackPending = 0
        /\ inbox["c1"] = <<>>

\* The Runner of page c has an acknowledged publish (FilesAcknowledged).
FilesAcknowledged(c) == swReady[c] /\ filesReceived[c]

\* C12: iframeKey of a Runner is incremented only in a step that starts or
\* ends with the Runner ready and its files acknowledged; never while the
\* registration is incomplete or the latest publish is unacknowledged.
C12_ReloadGated ==
    [][\A c \in Clients :
          iframeKey'[c] > iframeKey[c] =>
              (FilesAcknowledged(c) \/ FilesAcknowledged(c)')]_vars

\* A step that posted a SET_VIZ_FILES message to the worker.
SentSetVizFiles ==
    /\ Len(swQueue') = Len(swQueue) + 1
    /\ swQueue'[Len(swQueue')].type = "SET_VIZ_FILES"

\* C13: SET_VIZ_FILES is posted only by the publish effect of a Runner whose
\* registration has completed and whose swReady is true, whatever the order
\* of runContent calls and of the completion of the registration; and swReady
\* is true only once the registration has completed.
C13_NoPublishBeforeReady ==
    /\ [][SentSetVizFiles =>
            \E c \in Clients :
                /\ swReady[c]
                /\ reg[c] = "done"
                /\ effectPending[c] /\ ~effectPending'[c]
                /\ swQueue'[Len(swQueue')].payload = vizFiles[c]]_vars
    /\ [](\A c \in Clients : swReady[c] => reg[c] = "done")

\* A Runner whose registration is still pending, in a page the worker
\* already controls, was given SetA by runContent and ran its effects:
\* nothing was published and nothing is queued.
C13_Witness ==
    \E c \in Clients :
        /\ reg[c] = "pending"
        /\ c \in controlled
        /\ vizFiles[c] = SetA
        /\ ~effectPending[c]
        /\ published[c] = <<>>
        /\ swQueue = <<>>

\* C14: a Runner whose current file set has no file named exactly index.html
\* does not render the iframe, whatever its state; and a mounted Runner whose
\* current set has index.html, was published and has been acknowledged since
\* renders the iframe with src /index.html, on the registration it already
\* had.
C14_EntryDocumentGating ==
    \A c \in Clients :
        /\ ~hasIndexHtml(vizFiles[c]) =>
              (~shouldRenderIframe(c) /\ iframeSrc(c) = Undefined)
        /\ ( /\ Mounted(c)
             /\ hasIndexHtml(vizFiles[c])
             /\ published[c] = <<vizFiles[c]>>
             /\ ~effectPending[c]
             /\ ackSince[c] )
           => /\ shouldRenderIframe(c)
              /\ iframeSrc(c) = Slash(IndexHtml)
              /\ reg[c] = "done"

\* A Runner that became ready with the empty set, published it, was then
\* given SetA, published it as its second publish, and renders the iframe
\* after the acknowledgment of SetA.
C14_Witness ==
    \E c \in Clients :
        /\ iframeKey[c] = 2
        /\ vizFiles[c] = SetA
        /\ published[c] = <<SetA>>
        /\ VIZ_FILES = SetA
        /\ swQueue = <<>>
        /\ ackPending = 0
        /\ inbox[c] = <<>>
        /\ shouldRenderIframe(c)

\* The registration of the Runner in page c has failed: no service-worker
\* support, or register() was rejected.
RegistrationFailed(c) == reg[c] \in {"unsupported", "failed"}

\* C15: a Runner whose registration failed is never ready, has published
\* nothing, does not render the iframe, and never registers again: its
\* registration stays failed until the instance is unmounted, and no step
\* posts SET_VIZ_FILES on its behalf.
C15_RegistrationFailureTerminal ==
    /\ [](\A c \in Clients :
            RegistrationFailed(c) =>
                /\ ~swReady[c]
                /\ ~swRef[c]
                /\ published[c] = <<>>
                /\ iframeKey[c] = 0
                /\ ~shouldRenderIframe(c))
    /\ [][\A c \in Clients :
            RegistrationFailed(c) =>
                /\ reg'[c] \in {reg[c], "unmounted"}
                /\ published'[c] = published[c]]_vars

\* A Runner whose register() was rejected, in a page that the worker
\* (registered by the other page) already controls; it was given SetA and
\* ran its effects, and an acknowledgment of the other Runner's publish was
\* dispatched in its page.
C15_Witness ==
    \E c \in Clients :
        /\ reg[c] = "failed"
        /\ c \in controlled
        /\ vizFiles[c] = SetA
        /\ ~effectPending[c]
        /\ ackSince[c]
        /\ ~shouldRenderIframe(c)

\* The Runner of page c has published and waits for the acknowledgment
\* (AwaitingFiles).
AwaitingFiles(c) == swReady[c] /\ published[c] # <<>> /\ ~filesReceived[c]

\* C16: a Runner that waits for the acknowledgment of a publish eventually
\* stops waiting, also when no acknowledgment is ever delivered to it.  (The
\* Runner has no state other than filesReceived to leave the wait to: there
\* is no timer and no stalled state in it.)
C16_BoundedAckWait == AwaitingFiles("c1") ~> ~AwaitingFiles("c1")

\* C17: if the registration of the Runner succeeds and its file set stops
\* changing at a set S that has index.html, then, everything scheduled being
\* eventually run, from some point on the worker stores S, the Runner has
\* its publish acknowledged and renders the iframe, and the iframe element
\* rendered was created while the worker stored S.
C17_Convergence ==
    \A S \in ServeSets :
        <>[](reg["c1"] = "done" /\ vizFiles["c1"] = S)
            => <>[]( /\ VIZ_FILES = S
                     /\ filesReceived["c1"]
                     /\ shouldRenderIframe("c1")
                     /\ createdOn["c1"] = <<S>> )

\* A SET_VIZ_FILES message that publishes the empty set: its payload is the
\* empty set, or it has no payload.
IsEmptyPublish(msg) ==
    /\ msg.type = "SET_VIZ_FILES"
    /\ ("payload" \in DOMAIN msg => msg.payload = EmptySet)

HandledClaimClients ==
    /\ swQueue # <<>>
    /\ Head(swQueue).type = "CLAIM_CLIENTS"
    /\ swQueue' = Tail(swQueue)

LastQueuedSet ==
    LET i == CHOOSE i \in 1..Len(swQueue) :
                 /\ swQueue[i].type = "SET_VIZ_FILES"
                 /\ \A j \in (i+1)..Len(swQueue) :
                       swQueue[j].type # "SET_VIZ_FILES"
    IN  swQueue[i].payload

\* C20: with one Runner, publishes are applied in the order they were sent:
\* a publish is queued behind everything sent before it, and the worker
\* handles the message sent earliest.  So the publish queued last is the one
\* sent last; once the set sent last is stored and nothing is queued, the
\* stored set changes no more until the Runner publishes again; whenever
\* every publish sent has been handled the stored set is the one sent last;
\* and, everything scheduled being eventually run, that is how it ends.
C20_LastPublishWins ==
    /\ [][ /\ SentSetVizFiles =>
                 /\ SubSeq(swQueue', 1, Len(swQueue)) = swQueue
                 /\ swQueue'[Len(swQueue')].payload = vizFiles["c1"]
           /\ HandledSetVizFiles =>
                 VIZ_FILES' = Head(swQueue).payload
           /\ ( /\ published["c1"] # <<>>
                /\ ~SetVizFilesQueued
                /\ ~SentSetVizFiles )
              => VIZ_FILES' = VIZ_FILES ]_vars
    /\ [](published["c1"] # <<>> =>
            IF SetVizFilesQueued
            THEN LastQueuedSet = published["c1"][1]
            ELSE VIZ_FILES = published["c1"][1])
    /\ <>[](published["c1"] # <<>> =>
              (~SetVizFilesQueued /\ VIZ_FILES = published["c1"][1]))

\* SetA was handled and a request was answered from it while a later
\* publish was queued; the later publish, SetB, has been handled since and
\* is what the worker stores, with nothing left in the queue.
C20_Witness ==
    /\ Fetched
    /\ lastFetch.basis = <<SetA>>
    /\ lastFetch.inFlight
    /\ published["c1"] = <<SetB>>
    /\ applied = <<SetB>>
    /\ VIZ_FILES = SetB
    /\ swQueue = <<>>

\* A step in which the publish effect of the Runner in page c posted
\* SET_VIZ_FILES.
PublishedBy(c) ==
    /\ SentSetVizFiles
    /\ effectPending[c] /\ ~effectPending'[c]

\* C21: the step in which a Runner posts SET_VIZ_FILES leaves its
\* filesReceived false and its iframe not rendered; filesReceived of a
\* mounted Runner goes from true to false in such a step only; and from the
\* publish until an acknowledgment is dispatched in the page filesReceived
\* stays false.
C21_PublishClearsAck ==
    /\ [][\A c \in Clients :
            /\ PublishedBy(c) =>
                  (~filesReceived'[c] /\ ~shouldRenderIframe(c)')
            /\ (filesReceived[c] /\ ~filesReceived'[c] /\ reg'[c] = reg[c])
                  => PublishedBy(c)]_vars
    /\ [](\A c \in Clients :
            (Mounted(c) /\ published[c] # <<>> /\ ~ackSince[c])
                => ~filesReceived[c])

\* A Runner whose first publish was handled and acknowledged, the
\* acknowledgment dispatched before it published again; its second publish,
\* SetA, is queued and it waits for the acknowledgment.
C21_Witness ==
    \E c \in Clients :
        /\ iframeKey[c] = 2
        /\ swReady[c]
        /\ published[c] = <<SetA>>
        /\ swQueue = <<SetVizFilesMsg(SetA)>>
        /\ ackPending = 0
        /\ inbox[c] = <<>>
        /\ ~ackSince[c]
        /\ ~filesReceived[c]
        /\ ~shouldRenderIframe(c)

\* C22: iframeKey of a Runner is 0 until its first publish effect, and while
\* the instance lives it changes only in a publish effect, by exactly +1;
\* every step that posts SET_VIZ_FILES raises it.  So an iframe seen rendered
\* at the time of an earlier request carries a key no greater than the
\* current one, and a strictly smaller one when the Runner has published
\* since.
C22_KeyMonotonic ==
    /\ [][\A c \in Clients :
            /\ reg'[c] = reg[c] =>
                  iframeKey'[c] \in {iframeKey[c], iframeKey[c] + 1}
            /\ PublishedBy(c) => iframeKey'[c] = iframeKey[c] + 1
            /\ iframeKey'[c] > iframeKey[c] =>
                  (swReady[c] /\ effectPending[c] /\ ~effectPending'[c])]_vars
    /\ [](\A c \in Clients :
            /\ iframeKey[c] >= 0
            /\ (~swReady[c] \/ published[c] = <<>>) => iframeKey[c] = 0
            /\ shouldRenderIframe(c) => iframeKey[c] >= 1)
    /\ [](Fetched =>
            \A k \in lastFetch.keys :
                /\ k <= iframeKey["c1"]
                /\ lastFetch.sent # published => k < iframeKey["c1"])

\* The iframe was rendered under key 1 when a request was intercepted; the
\* Runner has published again since, the publish was acknowledged, and the
\* iframe now rendered has key 2.
C22_Witness ==
    /\ Fetched
    /\ lastFetch.keys = {1}
    /\ lastFetch.sent # published
    /\ iframeKey["c1"] = 2
    /\ shouldRenderIframe("c1")
    /\ createdOn["c1"] = published["c1"]

\* The text of the file named n that comes first in the enumeration order
\* of S.
FirstText(S, n) ==
    LET i == CHOOSE i \in 1..Len(S) :
                 /\ S[i].name = n
                 /\ \A j \in 1..(i-1) : S[j].name # n
    IN  S[i].text

\* C23: a same-origin request for a name the stored set has, once or several
\* times, is answered with the text of the first file of that name in the
\* enumeration order of the set; and a request that repeats the one before
\* it against the same stored set gets the same result.
C23_FirstMatch ==
    /\ []((Fetched /\ SameOrigin(lastFetch.req)
                   /\ HasName(lastFetch.store, NormalizedPath(lastFetch.req)))
            => /\ lastFetch.result.answered
               /\ lastFetch.result.body =
                     FirstText(lastFetch.store, NormalizedPath(lastFetch.req)))
    /\ [][(Fetched /\ lastFetch'.req = lastFetch.req
                   /\ lastFetch'.store = lastFetch.store)
            => lastFetch'.result = lastFetch.result]_vars

\* /d.csv asked of SetC, which has two files named d.csv, and answered with
\* the text of the first.
C23_Witness ==
    /\ Fetched
    /\ lastFetch.store = SetC
    /\ lastFetch.req = [origin |-> SelfOrigin, url |-> Slash(DataCsv)]
    /\ lastFetch.result.answered
    /\ lastFetch.result.body = "D1"
    /\ HasFile(SetC, DataCsv, "D2")

PathKey(url) ==
    LET stop == CHOOSE k \in 1..(Len(url) + 1) :
                    /\ \A i \in 1..(k-1) : url[i] \notin {"?", "#"}
                    /\ k <= Len(url) => url[k] \in {"?", "#"}
        first == IF Len(url) >= 1 /\ url[1] = "/" THEN 2 ELSE 1
    IN  [i \in 1..(stop - first) |-> url[i + first - 1]]

SelfRequest(url) == [origin |-> SelfOrigin, url |-> url]

\* C25: a same-origin request is answered exactly when the stored set has a
\* file named by the path of its URL without the leading / and without query
\* and fragment, and then with the first file of that name; so /index.js,
\* /index.js?v and /index.js#x get the same answer from every stored set
\* that has index.js.
C25_PathNormalization ==
    /\ (Fetched /\ SameOrigin(lastFetch.req)) =>
          LET key == PathKey(lastFetch.req.url)
              r == lastFetch.result
          IN  /\ r.answered <=> HasName(lastFetch.store, key)
              /\ r.answered => r.body = FirstText(lastFetch.store, key)
    /\ HasName(VIZ_FILES, IndexJs) =>
          LET plain == FetchResult(VIZ_FILES, SelfRequest(Slash(IndexJs)))
          IN  /\ plain.answered
              /\ FetchResult(VIZ_FILES,
                     SelfRequest(Slash(IndexJs) \o <<"?","v">>)) = plain
              /\ FetchResult(VIZ_FILES,
                     SelfRequest(Slash(IndexJs) \o <<"#","x">>)) = plain

\* /index.js?v asked of SetA and answered with the text of index.js.
C25_Witness ==
    /\ Fetched
    /\ lastFetch.req = SelfRequest(Slash(IndexJs) \o <<"?","v">>)
    /\ lastFetch.store = SetA
    /\ lastFetch.result.answered
    /\ lastFetch.result.body = "J1"
    /\ lastFetch.result.contentType = "text/javascript"

\* A step in which the worker handled a message of a type it has no branch
\* for.
HandledUnknown ==
    /\ swQueue # <<>>
    /\ Head(swQueue).type \notin {"SET_VIZ_FILES", "CLAIM_CLIENTS"}
    /\ swQueue' = Tail(swQueue)

Determined(S, origin, key) ==
    IF origin = SelfOrigin /\ HasName(S, key)
    THEN [answered |-> TRUE, status |-> 200, body |-> FirstText(S, key),
          contentType |-> guessContentType(key)]
    ELSE [answered |-> FALSE]

MountChanges(c) == (reg[c] = "unmounted") # (reg'[c] = "unmounted")

\* C29: a step that unmounts or mounts a Runner leaves the worker, and the
\* set it stores, as they were; a Runner just mounted is not ready and has
\* no acknowledgment; and a Runner renders the iframe only after its own
\* registration resolved, it posted a SET_VIZ_FILES of its own and a
\* VIZ_FILES_RECEIVED reached it after that.
C29_OutlivesController ==
    /\ [][\A c \in Clients :
            MountChanges(c) =>
                /\ VIZ_FILES' = VIZ_FILES
                /\ swState' = swState
                /\ swQueue' = swQueue
                /\ Mounted(c)' => (~swReady'[c] /\ ~filesReceived'[c]
                                    /\ ~shouldRenderIframe(c)')]_vars
    /\ [](\A c \in Clients :
            shouldRenderIframe(c) =>
                /\ reg[c] = "done"
                /\ published[c] # <<>>
                /\ ackSince[c])

\* A second Runner has just been mounted and waits for its registration,
\* not ready and not acknowledged, while the worker is active and still
\* stores the set published by a Runner that is gone.
C29_Witness ==
    \E c \in Clients :
        /\ mounts = 2
        /\ reg[c] = "pending"
        /\ \A d \in Clients \ {c} : ~Mounted(d)
        /\ ~swReady[c]
        /\ ~filesReceived[c]
        /\ published[c] = <<>>
        /\ swState = "active"
        /\ VIZ_FILES = SetA
        /\ applied # <<>>

Changed == runs' # runs

C32_NoRenderBeforeReady ==
    /\ \A c \in Clients :
          createdOn[c] # <<>> => (swReady[c] /\ reg[c] = "done")
    /\ lastFetch.kind = "load" => lastFetch.intercepted

\* C33: with the Runners of two pages on one worker, the set the worker
\* stores after handling a SET_VIZ_FILES is the payload of that message,
\* whichever Runner sent it, so the stored set is always the payload handled
\* last; a broadcast posts the acknowledgment to both pages; and an
\* acknowledgment dispatched in the page of a Runner that listens sets its
\* filesReceived, whether or not the handled publish was its own.
C33_TwoControllers ==
    /\ [][/\ HandledSetVizFiles
                => /\ VIZ_FILES' = IF "payload" \in DOMAIN Head(swQueue)
                                   THEN Head(swQueue).payload
                                   ELSE EmptySet
                   /\ applied' = <<VIZ_FILES'>>
          /\ SomeInboxGrew
                => \A c \in Clients : inbox'[c] = Append(inbox[c], AckMsg)
          /\ \A c \in Clients :
                ( /\ inbox[c] # <<>>
                  /\ inbox'[c] = Tail(inbox[c])
                  /\ Head(inbox[c]) = AckMsg
                  /\ listening[c] )
                    => filesReceived'[c]]_vars
    /\ [](applied # <<>> => VIZ_FILES = applied[1])

\* Both Runners are ready and c1 has published SetA, which the worker
\* handled and stores.  The publish of c2, the empty set, is still queued
\* behind it, and c2 already holds its files received: by the
\* acknowledgment of the publish of c1.
C33_Witness ==
    /\ swReady["c1"]
    /\ swReady["c2"]
    /\ published["c1"] = <<SetA>>
    /\ published["c2"] = <<EmptySet>>
    /\ applied = <<SetA>>
    /\ VIZ_FILES = SetA
    /\ swQueue = <<SetVizFilesMsg(EmptySet)>>
    /\ filesReceived["c2"]
    /\ inbox["c1"] # <<>>

\* A message event brought page c an acknowledgment in the step.
AckDispatched(c) ==
    /\ inbox[c] # <<>>
    /\ Head(inbox[c]) = AckMsg
    /\ inbox'[c] = Tail(inbox[c])

\* C34: filesReceived of a Runner implies its swReady, and swReady implies
\* that swRef.current is set, so every run of the publish effect of a ready
\* Runner posts a SET_VIZ_FILES and the branch without a reference is never
\* taken; and an acknowledgment dispatched in the page of a Runner that is
\* not ready, or not mounted, leaves its filesReceived false.
C34_FlagInvariant ==
    /\ [](\A c \in Clients :
            /\ filesReceived[c] => swReady[c]
            /\ swReady[c] => (swRef[c] /\ reg[c] = "done"))
    /\ [][\A c \in Clients :
            /\ ( /\ swReady[c]
                 /\ effectPending[c]
                 /\ ~effectPending'[c]
                 /\ Mounted(c)' )
                   => /\ Len(swQueue') = Len(swQueue) + 1
                      /\ swQueue'[Len(swQueue')].type = "SET_VIZ_FILES"
            /\ (AckDispatched(c) /\ (~swReady[c] \/ ~Mounted(c)))
                   => ~filesReceived'[c]]_vars

\* The Runner of c2 is mounted and its registration is still pending; an
\* acknowledgment of a publish of c1 was dispatched in its page, and its
\* filesReceived is false.
C34_Witness ==
    /\ reg["c2"] = "pending"
    /\ ~swReady["c2"]
    /\ ackSince["c2"]
    /\ inbox["c2"] = <<>>
    /\ ~filesReceived["c2"]
    /\ published["c1"] # <<>>
    /\ filesReceived["c1"]

====
